---- MODULE Spec2Model ----
(***************************************************************************)
(* Resilience core of marcelofabianov/monorepo-go:                         *)
(*   - retry.Do            (pkg/retry, retry executor)                     *)
(*   - middleware.ByIP     (pkg/web/middleware, client identity)           *)
(*   - RateLimiter.Limit   (pkg/web/middleware, breaker-gated limiter)     *)
(*   - BackoffStrategy     (pkg/retry, exponential, constant, linear)      *)
(*   - middleware.RealIP   (pkg/web/middleware, ahead of the limiter)      *)
(* Each subsystem has its own specification over the shared variables.     *)
(***************************************************************************)
EXTENDS Integers, Sequences, FiniteSets, Bags, TLC

(***************************************************************************)
(* Bounds of the model.                                                    *)
(***************************************************************************)
MaxAttemptsBound == 3
\* clock of the rate limiter: seconds per step and the last instant examined
TickStep == 10
MaxTime == 40
\* store calls in progress at one time, and calls admitted in one window
MaxInFlight == 3
MaxWindowRequests == 5

VARIABLES
    \* ---- retry.Do: one call of Do and its context ----
    cfgMaxAttempts,   \* Config.MaxAttempts
    cfgStrategySet,   \* Config.Strategy != nil
    cfgOnRetrySet,    \* Config.OnRetry != nil
    pc,               \* position of Do
    attempt,          \* loop variable of Do
    lastErr,          \* err: 0 = nil, i = error of the i-th invocation of fn
    ctxDone,          \* ctx.Err() != nil
    cancelAt,         \* where Do was when the context was cancelled
    timerFired,       \* the channel of time.After(delay) is ready
    ret,              \* value returned by Do
    trace,            \* calls made by Do and events of its context, in order
    \* ---- RateLimiter configuration (NewRateLimiter) ----
    trustedCidrs,     \* trustedProxyCIDRs, a sequence of strings
    secLogger,        \* "nil": no SecurityLogger; "noSink": its logger is nil; "sink"
    \* ---- requests resolved by the ByIP strategy ----
    resolved,         \* set of [peer, xff, id, events]
    \* ---- RateLimiter.Limit and its circuit breaker ----
    rlEnabled,        \* RateLimiter.enabled
    rlRedis,          \* RateLimiter.redis != nil
    cb,               \* the gobreaker.CircuitBreaker: state, generation, counts, expiry
    now,              \* time.Now(), in seconds
    inflight,         \* bag of requests whose store call is in progress
    last,             \* the response written by the last step, if it wrote one
    cbOp,             \* the breaker operation of the last step, if it made one,
                      \* and the counts that opened the breaker last
    \* ---- a BackoffStrategy shared by retry sequences ----
    goarch,           \* the architecture the program was built for
    strategy,         \* the strategy object: its kind and its fields
    calls             \* the calls made on it, in order, with what they returned

rvars == <<cfgMaxAttempts, cfgStrategySet, cfgOnRetrySet, pc, attempt,
           lastErr, ctxDone, cancelAt, timerFired, ret, trace>>

cvars == <<trustedCidrs, secLogger>>

lvars == <<rlEnabled, rlRedis, cb, now, inflight, last, cbOp>>

bvars == <<goarch, strategy, calls>>

nonRetry == <<cvars, resolved, lvars, bvars>>
nonIdentity == <<rvars, lvars, bvars>>
nonLimiter == <<rvars, resolved, bvars>>
nonBackoff == <<rvars, cvars, resolved, lvars>>

vars == <<rvars, cvars, resolved, lvars, bvars>>

(***************************************************************************)
(* Strings.  A string is a sequence of tokens: a decimal number, a         *)
(* punctuation character, or a letter.                                     *)
(***************************************************************************)
N(v) == [t |-> "num", v |-> v]
Dot == [t |-> ".", v |-> 0]
Colon == [t |-> ":", v |-> 0]
Comma == [t |-> ",", v |-> 0]
Space == [t |-> " ", v |-> 0]
Slash == [t |-> "/", v |-> 0]
Letter == [t |-> "x", v |-> 0]

IPv4(a, b, c, d) == <<N(a), Dot, N(b), Dot, N(c), Dot, N(d)>>
HostPort(host, port) == host \o <<Colon, N(port)>>
CIDR(ip, bits) == ip \o <<Slash, N(bits)>>

MaxOf(S) == CHOOSE x \in S : \A y \in S : y <= x
MinOf(S) == CHOOSE x \in S : \A y \in S : x <= y

\* strings.LastIndex / strings.Index on one character; 0 = not found
LastIndex(str, tok) ==
    LET I == {i \in 1..Len(str) : str[i] = tok} IN IF I = {} THEN 0 ELSE MaxOf(I)
FirstIndex(str, tok) ==
    LET I == {i \in 1..Len(str) : str[i] = tok} IN IF I = {} THEN 0 ELSE MinOf(I)

\* net.SplitHostPort (no brackets in the alphabet): error when there is no
\* colon ("missing port") or more than one ("too many colons")
SplitHostPort(addr) ==
    LET i == LastIndex(addr, Colon)
        host == SubSeq(addr, 1, i - 1)
    IN  IF i = 0 THEN [err |-> TRUE, host |-> <<>>]
        ELSE IF FirstIndex(host, Colon) # 0 THEN [err |-> TRUE, host |-> <<>>]
        ELSE [err |-> FALSE, host |-> host]

\* parseIP: the host of addr, or addr itself when it has no host:port form
parseIPKeepPort(addr) == addr
parseIP(addr) ==
    LET r == SplitHostPort(addr) IN IF r.err THEN addr ELSE r.host

\* net.ParseIP for dotted-quad IPv4: the four octets, or <<>> for nil
ParseIP(str) ==
    IF /\ Len(str) = 7
       /\ \A i \in {1, 3, 5, 7} : str[i].t = "num" /\ str[i].v \in 0..255
       /\ \A i \in {2, 4, 6} : str[i] = Dot
    THEN <<str[1].v, str[3].v, str[5].v, str[7].v>>
    ELSE <<>>

\* 2^n for n in 0..8
Pow2(n) == CASE n = 0 -> 1 [] n = 1 -> 2 [] n = 2 -> 4 [] n = 3 -> 8
             [] n = 4 -> 16 [] n = 5 -> 32 [] n = 6 -> 64 [] n = 7 -> 128
             [] OTHER -> 256

\* IP.Mask with a CIDR mask of the given prefix length, octet by octet
MaskIP(ip, bits) ==
    [k \in 1..4 |->
        LET nb == IF bits - 8 * (k - 1) >= 8 THEN 8
                  ELSE IF bits - 8 * (k - 1) <= 0 THEN 0
                  ELSE bits - 8 * (k - 1)
        IN  ip[k] - (ip[k] % Pow2(8 - nb))]

\* net.ParseCIDR: "a.b.c.d/n" with n in 0..32 gives the masked network
ParseCIDR(str) ==
    LET i == FirstIndex(str, Slash)
        ip == ParseIP(SubSeq(str, 1, i - 1))
    IN  IF /\ i # 0
           /\ ip # <<>>
           /\ Len(str) = i + 1
           /\ str[i + 1].t = "num"
           /\ str[i + 1].v \in 0..32
        THEN [err |-> FALSE, ip |-> MaskIP(ip, str[i + 1].v), bits |-> str[i + 1].v]
        ELSE [err |-> TRUE, ip |-> <<>>, bits |-> 0]

\* IPNet.Contains
Contains(ipnet, ip) == MaskIP(ip, ipnet.bits) = ipnet.ip

\* parseTrustedProxies: malformed CIDR entries are skipped
RECURSIVE parseTrustedProxies(_)
parseTrustedProxies(cidrs) ==
    IF cidrs = <<>> THEN <<>>
    ELSE LET r == ParseCIDR(Head(cidrs)) IN
         (IF r.err THEN <<>> ELSE <<r>>) \o parseTrustedProxies(Tail(cidrs))

\* RateLimiter.isTrustedProxy
isTrustedProxyAlways(proxies, ip) == TRUE
isTrustedProxyUnparsed(proxies, ip) ==
    LET parsedIP == ParseIP(ip) IN
    IF parsedIP = <<>> THEN TRUE
    ELSE \E k \in 1..Len(proxies) : Contains(proxies[k], parsedIP)
isTrustedProxy(proxies, ip) ==
    LET parsedIP == ParseIP(ip) IN
    IF parsedIP = <<>> THEN FALSE
    ELSE \E k \in 1..Len(proxies) : Contains(proxies[k], parsedIP)

\* strings.Split(s, ",")[0]
SplitFirstLast(str) == SubSeq(str, LastIndex(str, Comma) + 1, Len(str))
SplitFirst(str) ==
    LET i == FirstIndex(str, Comma) IN
    IF i = 0 THEN str ELSE SubSeq(str, 1, i - 1)

\* strings.TrimSpace
RECURSIVE TrimLeft(_)
TrimLeft(str) ==
    IF str # <<>> /\ Head(str) = Space THEN TrimLeft(Tail(str)) ELSE str
RECURSIVE TrimRight(_)
TrimRight(str) ==
    IF str # <<>> /\ str[Len(str)] = Space
    THEN TrimRight(SubSeq(str, 1, Len(str) - 1)) ELSE str
TrimSpace(str) == TrimRight(TrimLeft(str))

\* SecurityLogger.LogEvent behind the nil check of its caller: the events
\* that reach the log sink
LogEvent(logger, eventType) ==
    IF logger = "nil" \/ logger = "noSink" THEN {} ELSE {eventType}

\* SecurityLogger.LogIPSpoofing
LogIPSpoofing(logger) == LogEvent(logger, "ip_spoofing")

\* the strategy returned by ByIP, applied to a request with RemoteAddr
\* remoteAddr and X-Forwarded-For value xff (<<>> when absent)
ByIPFlaggedAnonymous(cidrs, logger, remoteAddr, xff) ==
    LET remoteIP == parseIP(remoteAddr) IN
    IF isTrustedProxy(parseTrustedProxies(cidrs), remoteIP)
    THEN IF xff # <<>>
         THEN [id |-> TrimSpace(SplitFirst(xff)), events |-> {}]
         ELSE [id |-> remoteIP, events |-> {}]
    ELSE IF xff # <<>>
         THEN [id |-> <<>>, events |-> LogIPSpoofing(logger)]
         ELSE [id |-> remoteIP, events |-> {}]
ByIP(cidrs, logger, remoteAddr, xff) ==
    LET remoteIP == parseIP(remoteAddr) IN
    IF isTrustedProxy(parseTrustedProxies(cidrs), remoteIP)
    THEN IF xff # <<>>
         THEN [id |-> TrimSpace(SplitFirst(xff)), events |-> {}]
         ELSE [id |-> remoteIP, events |-> {}]
    ELSE IF xff # <<>>
         THEN [id |-> remoteIP, events |-> LogIPSpoofing(logger)]
         ELSE [id |-> remoteIP, events |-> {}]

\* inputs of the model
PeerAddrs ==
    { HostPort(IPv4(10, 0, 0, 5), 1234),
      HostPort(IPv4(203, 0, 113, 1), 5555),
      HostPort(IPv4(11, 0, 0, 5), 80),
      IPv4(10, 0, 0, 1),
      <<Letter, Colon, N(1)>>,
      HostPort(IPv4(10, 0, 0, 5) \o <<Colon, N(1)>>, 2) }
ForwardedValues ==
    { <<>>,
      IPv4(203, 0, 113, 9) \o <<Comma, Space>> \o IPv4(10, 0, 0, 5),
      <<Space>> \o IPv4(192, 168, 1, 1) \o <<Space, Comma>> \o IPv4(10, 0, 0, 5),
      IPv4(192, 168, 1, 1),
      <<Space, Comma>> \o IPv4(10, 0, 0, 5) }
TrustedConfigs ==
    { <<>>,
      <<CIDR(IPv4(10, 0, 0, 0), 8)>>,
      <<<<Letter>>, CIDR(IPv4(10, 0, 0, 5), 9)>>,
      <<CIDR(IPv4(203, 0, 113, 0), 24), CIDR(IPv4(10, 0, 0, 0), 33)>> }
SecLoggers == {"nil", "noSink", "sink"}

\* number of resolved requests kept for comparison
MaxResolved == 2

(***************************************************************************)
(* The circuit breaker of NewRateLimiter: sony/gobreaker with the Settings *)
(* MaxRequests, Interval, Timeout and ReadyToTrip given there.             *)
(***************************************************************************)
MaxRequests == 3
Interval == 10
Timeout == 30
ZeroTime == -1

ZeroCounts ==
    [Requests |-> 0, TotalSuccesses |-> 0, TotalFailures |-> 0,
     ConsecutiveSuccesses |-> 0, ConsecutiveFailures |-> 0]

\* Settings.ReadyToTrip: float64(TotalFailures)/float64(Requests) >= 0.6 with
\* Requests >= 3; the quotient of two small integers is compared exactly
ReadyToTripStrict(counts) ==
    counts.Requests > 3 /\ 10 * counts.TotalFailures >= 6 * counts.Requests
ReadyToTrip(counts) ==
    counts.Requests >= 3 /\ 10 * counts.TotalFailures >= 6 * counts.Requests

\* Counts.onRequest, onSuccess, onFailure
CountsOnRequest(c) == [c EXCEPT !.Requests = @ + 1]
CountsOnSuccess(c) ==
    [c EXCEPT !.TotalSuccesses = @ + 1, !.ConsecutiveSuccesses = @ + 1,
              !.ConsecutiveFailures = 0]
CountsOnFailure(c) ==
    [c EXCEPT !.TotalFailures = @ + 1, !.ConsecutiveFailures = @ + 1,
              !.ConsecutiveSuccesses = 0]

\* CircuitBreaker.toNewGeneration
ToNewGeneration(b, t) ==
    [b EXCEPT !.generation = @ + 1,
              !.counts = ZeroCounts,
              !.expiry = CASE b.state = "closed" -> t + Interval
                           [] b.state = "open" -> t + Timeout
                           [] OTHER -> ZeroTime]

\* CircuitBreaker.setState
SetState(b, state, t) ==
    IF b.state = state THEN b
    ELSE ToNewGeneration([b EXCEPT !.state = state], t)

\* CircuitBreaker.currentState: expiry.Before(now) is strict
CurrentStateOpenToClosed(b, t) ==
    CASE b.state = "closed" /\ b.expiry # ZeroTime /\ b.expiry < t ->
            ToNewGeneration(b, t)
      [] b.state = "open" /\ b.expiry < t -> SetState(b, "closed", t)
      [] OTHER -> b
CurrentState(b, t) ==
    CASE b.state = "closed" /\ b.expiry # ZeroTime /\ b.expiry < t ->
            ToNewGeneration(b, t)
      [] b.state = "open" /\ b.expiry < t -> SetState(b, "halfOpen", t)
      [] OTHER -> b

\* CircuitBreaker.beforeRequest
BeforeRequestOpenAdmits(b, t) ==
    LET c == CurrentState(b, t) IN
    IF c.state = "halfOpen" /\ c.counts.Requests >= MaxRequests
    THEN [cb |-> c, err |-> "ErrTooManyRequests", generation |-> c.generation]
    ELSE [cb |-> [c EXCEPT !.counts = CountsOnRequest(@)], err |-> "nil",
          generation |-> c.generation]
BeforeRequestUnlimitedTrials(b, t) ==
    LET c == CurrentState(b, t) IN
    IF c.state = "open"
    THEN [cb |-> c, err |-> "ErrOpenState", generation |-> c.generation]
    ELSE [cb |-> [c EXCEPT !.counts = CountsOnRequest(@)], err |-> "nil",
          generation |-> c.generation]
BeforeRequest(b, t) ==
    LET c == CurrentState(b, t) IN
    IF c.state = "open"
    THEN [cb |-> c, err |-> "ErrOpenState", generation |-> c.generation]
    ELSE IF c.state = "halfOpen" /\ c.counts.Requests >= MaxRequests
    THEN [cb |-> c, err |-> "ErrTooManyRequests", generation |-> c.generation]
    ELSE [cb |-> [c EXCEPT !.counts = CountsOnRequest(@)], err |-> "nil",
          generation |-> c.generation]

\* CircuitBreaker.onSuccess
OnSuccessFirstCloses(b, t) ==
    CASE b.state = "closed" -> [b EXCEPT !.counts = CountsOnSuccess(@)]
      [] b.state = "halfOpen" ->
            SetState([b EXCEPT !.counts = CountsOnSuccess(@)], "closed", t)
      [] OTHER -> b
OnSuccess(b, t) ==
    CASE b.state = "closed" -> [b EXCEPT !.counts = CountsOnSuccess(@)]
      [] b.state = "halfOpen" ->
            LET c == [b EXCEPT !.counts = CountsOnSuccess(@)] IN
            IF c.counts.ConsecutiveSuccesses >= MaxRequests
            THEN SetState(c, "closed", t) ELSE c
      [] OTHER -> b

\* CircuitBreaker.onFailure
OnFailureTrialTolerated(b, t) ==
    CASE b.state = "closed" ->
            LET c == [b EXCEPT !.counts = CountsOnFailure(@)] IN
            IF ReadyToTrip(c.counts) THEN SetState(c, "open", t) ELSE c
      [] b.state = "halfOpen" -> [b EXCEPT !.counts = CountsOnFailure(@)]
      [] OTHER -> b
OnFailure(b, t) ==
    CASE b.state = "closed" ->
            LET c == [b EXCEPT !.counts = CountsOnFailure(@)] IN
            IF ReadyToTrip(c.counts) THEN SetState(c, "open", t) ELSE c
      [] b.state = "halfOpen" -> SetState(b, "open", t)
      [] OTHER -> b

\* CircuitBreaker.afterRequest: a result of an older generation is dropped
AfterRequest(b, before, success, t) ==
    LET c == CurrentState(b, t) IN
    IF c.generation # before THEN c
    ELSE IF success THEN OnSuccess(c, t) ELSE OnFailure(c, t)

\* the counts a completed call leaves before any state change they cause
RecordedCounts(b, before, success, t) ==
    LET c == CurrentState(b, t) IN
    IF c.generation # before THEN c.counts
    ELSE IF c.state = "open" THEN c.counts
    ELSE IF success THEN CountsOnSuccess(c.counts) ELSE CountsOnFailure(c.counts)

\* gobreaker.NewCircuitBreaker at time t
NewCircuitBreaker(t) ==
    ToNewGeneration([state |-> "closed", generation |-> 0,
                     counts |-> ZeroCounts, expiry |-> ZeroTime], t)

NoOp == [op |-> "none", prev |-> "closed", prevExpiry |-> ZeroTime,
         from |-> "closed", at |-> 0, counts |-> ZeroCounts,
         tripped |-> ZeroCounts]

NoResponse ==
    [peer |-> <<>>, xff |-> <<>>, key |-> <<>>, status |-> 0, next |-> FALSE,
     headers |-> {}, events |-> {}, storeCalled |-> FALSE, err |-> "none",
     allowed |-> -1]

\* the variables of the rate limiter while another subsystem is examined
IdleLimiter ==
    /\ rlEnabled = FALSE /\ rlRedis = FALSE /\ now = 0
    /\ cb = NewCircuitBreaker(0) /\ inflight = EmptyBag
    /\ last = NoResponse /\ cbOp = NoOp

(***************************************************************************)
(* Backoff strategies (pkg/retry).  time.Duration and int are 64-bit       *)
(* two's-complement integers and float64 has a 53-bit significand; the     *)
(* model keeps both kinds of arithmetic and scales the widths down to      *)
(* DurationBits and MantissaBits.                                          *)
(***************************************************************************)
DurationBits == 8
MantissaBits == 5

MaxInt == 2^(DurationBits - 1) - 1
MinInt == -(2^(DurationBits - 1))

\* the result of an integer operation, wrapped to the width of int64
Wrap(x) == ((x - MinInt) % 2^DurationBits) + MinInt

\* time.Second, in the unit of the scaled Duration
Second == 10

\* a float64: NaN, zero, or m * 2^e with MantissaBits significant bits in m
NaN == [nan |-> TRUE, m |-> 0, e |-> 0]
Fl(m, e) == [nan |-> FALSE, m |-> m, e |-> e]
Zero == Fl(0, 0)

RECURSIVE BitLen(_)
BitLen(m) == IF m = 0 THEN 0 ELSE 1 + BitLen(m \div 2)

\* the float64 nearest to m * 2^e (m >= 0), ties to the even significand
Round(m, e) ==
    IF m = 0 THEN Zero
    ELSE LET len == BitLen(m) IN
         IF len <= MantissaBits
         THEN Fl(m * 2^(MantissaBits - len), e - (MantissaBits - len))
         ELSE LET s == len - MantissaBits
                  q == m \div 2^s
                  r == m % 2^s
                  half == 2^(s - 1)
                  q2 == IF r > half \/ (r = half /\ q % 2 = 1) THEN q + 1 ELSE q
              IN  IF q2 = 2^MantissaBits
                  THEN Fl(2^(MantissaBits - 1), e + s + 1)
                  ELSE Fl(q2, e + s)

\* float64(n) of an integer n >= 0
Float64(n) == Round(n, 0)

One == Float64(1)
Half == Round(1, -1)

\* a * b
Mul(a, b) ==
    IF a.nan \/ b.nan THEN NaN ELSE Round(a.m * b.m, a.e + b.e)

\* a + b, for a, b >= 0
Add(a, b) ==
    IF a.nan \/ b.nan THEN NaN
    ELSE IF a.m = 0 THEN b
    ELSE IF b.m = 0 THEN a
    ELSE LET e0 == IF a.e < b.e THEN a.e ELSE b.e IN
         Round(a.m * 2^(a.e - e0) + b.m * 2^(b.e - e0), e0)

\* a > b; false when either is NaN
Greater(a, b) ==
    /\ ~a.nan /\ ~b.nan
    /\ a.m # 0
    /\ \/ b.m = 0
       \/ a.e > b.e
       \/ a.e = b.e /\ a.m > b.m

\* a <= b; false when either is NaN
LessEq(a, b) == ~a.nan /\ ~b.nan /\ ~Greater(a, b)

\* the integer part of a float64 f >= 0
IntPart(f) ==
    IF f.e >= 0 THEN f.m * 2^f.e
    ELSE IF -f.e > 2 * MantissaBits THEN 0
    ELSE f.m \div 2^(-f.e)

\* math.Pow leaves its loop once the exponent of the running square is out
\* of range; the result is then +Inf, here a value above every Duration
ExpCap == 2 * DurationBits
Huge == Fl(2^(MantissaBits - 1), ExpCap)

\* math.Pow, the loop over the bits of the integer exponent:
\* square-and-multiply, every product rounded
RECURSIVE PowLoop(_, _, _)
PowLoop(a, x, i) ==
    IF i = 0 THEN a
    ELSE IF x.e > ExpCap \/ a.e > ExpCap THEN Huge
    ELSE PowLoop(IF i % 2 = 1 THEN Mul(a, x) ELSE a, Mul(x, x), i \div 2)

\* math.Pow(x, y) for x > 1 or NaN and an integral y >= 0
Pow(x, y) ==
    IF y.m = 0 \/ x = One THEN One
    ELSE IF y = One THEN x
    ELSE IF x.nan THEN NaN
    ELSE IF y.e >= 0 /\ IntPart(y) >= 2^(DurationBits - 1) THEN Huge
    ELSE PowLoop(One, x, IntPart(y))

\* values of rand.Float64(): k / 2^MantissaBits for some of the k it can draw
RandFloat64 ==
    { Round(k, -MantissaBits) : k \in {0, 2^(MantissaBits - 1), 2^MantissaBits - 1} }

\* the builds examined
Architectures == {"amd64", "arm64"}

\* f >= 0 is finite and below 2^63
Representable(f) ==
    /\ ~f.nan
    /\ f.e < DurationBits
    /\ IntPart(f) <= MaxInt

\* time.Duration(f), f >= 0 or NaN: truncation towards zero; a value the
\* type cannot represent converts to an implementation-dependent value: the
\* smallest integer on amd64, the nearest bound (0 for NaN) on arm64
ToDuration(f, arch) ==
    IF Representable(f) THEN IntPart(f)
    ELSE IF arch = "amd64" THEN MinInt
    ELSE IF f.nan THEN 0
    ELSE MaxInt

\* a strategy object; the fields its kind does not have are left zero
Strategy(kind, min, max, factor, jitter, delay, increment) ==
    [kind |-> kind, min |-> min, max |-> max, factor |-> factor,
     jitter |-> jitter, delay |-> delay, increment |-> increment]

NewExponentialBackoff(config) ==
    LET min == IF config.Min <= 0 THEN Second ELSE config.Min
        max == IF config.Max < min THEN min ELSE config.Max
        factor == IF LessEq(config.Factor, One) THEN Float64(2) ELSE config.Factor
    IN  Strategy("exponential", min, max, factor, config.Jitter, 0, 0)

\* ExponentialBackoff.NextDelay: the delays the call can return
ExponentialNextDelayNoCap(e, att, arch) ==
    LET a == IF att < 0 THEN 0 ELSE att
        raw == Mul(Float64(e.min), Pow(e.factor, Float64(a)))
        delays == IF e.jitter
                  THEN {Mul(raw, Add(Half, r)) : r \in RandFloat64}
                  ELSE {raw}
    IN  {ToDuration(d, arch) : d \in delays}
ExponentialNextDelay(e, att, arch) ==
    LET a == IF att < 0 THEN 0 ELSE att
        raw == Mul(Float64(e.min), Pow(e.factor, Float64(a)))
        capped == IF Greater(raw, Float64(e.max)) THEN Float64(e.max) ELSE raw
        delays == IF e.jitter
                  THEN {Mul(capped, Add(Half, r)) : r \in RandFloat64}
                  ELSE {capped}
    IN  {ToDuration(d, arch) : d \in delays}

NewConstantBackoff(delay) ==
    Strategy("constant", 0, 0, Zero, FALSE, IF delay <= 0 THEN Second ELSE delay, 0)

\* ConstantBackoff.NextDelay
ConstantNextDelay(c, att) == {c.delay}

NewLinearBackoff(increment, max) ==
    LET inc == IF increment <= 0 THEN Second ELSE increment
        m == IF max < inc THEN inc ELSE max
    IN  Strategy("linear", 0, m, Zero, FALSE, 0, inc)

\* LinearBackoff.NextDelay: int64 arithmetic wraps
LinearNextDelay(l, att) ==
    LET a == IF att < 0 THEN 0 ELSE att
        delay == Wrap(l.increment * Wrap(a + 1))
    IN  {IF delay > l.max THEN l.max ELSE delay}

\* BackoffStrategy.NextDelay, dispatched on the dynamic type
NextDelay(s, att, arch) ==
    CASE s.kind = "exponential" -> ExponentialNextDelay(s, att, arch)
      [] s.kind = "constant" -> ConstantNextDelay(s, att)
      [] OTHER -> LinearNextDelay(s, att)

\* BackoffStrategy.Reset: a no-op in the three strategies
ResetToDefaults(s) ==
    [s EXCEPT !.min = Second, !.max = Second, !.delay = Second,
              !.increment = Second]
Reset(s) == s

\* the strategy while another subsystem is examined
IdleBackoff ==
    goarch = "amd64" /\ strategy = NewConstantBackoff(Second) /\ calls = <<>>

(***************************************************************************)
(* retry.Do                                                                *)
(***************************************************************************)
NoRet == [kind |-> "running", err |-> 0, attempt |-> -1]

\* the values Do can return
RetNil == [kind |-> "nil", err |-> 0, attempt |-> -1]
RetRawWrapped(e) == [kind |-> "ErrMaxAttemptsReached", err |-> e, attempt |-> 0]
RetRaw(e) == [kind |-> "raw", err |-> e, attempt |-> -1]
RetInvalidConfig == [kind |-> "ErrInvalidConfig", err |-> 0, attempt |-> -1]
RetCancelledNext(a) == [kind |-> "cancelled", err |-> 0, attempt |-> a + 1]
RetCancelled(a) == [kind |-> "cancelled", err |-> 0, attempt |-> a]
RetCancelledDelay(a) == [kind |-> "cancelledDelay", err |-> 0, attempt |-> a]
RetMaxAttemptsRaw(n, e) == [kind |-> "raw", err |-> e, attempt |-> -1]
RetMaxAttemptsFirstErr(n, e) ==
    [kind |-> "ErrMaxAttemptsReached", err |-> 1, attempt |-> n]
RetMaxAttempts(n, e) == [kind |-> "ErrMaxAttemptsReached", err |-> e, attempt |-> n]

\* Config.Validate: nil error iff MaxAttempts >= 0 and Strategy != nil
Validate(maxAttempts, strategySet) == maxAttempts >= 0 /\ strategySet

\* loop condition of Do
LoopCondLE(a, maxAttempts) == a <= maxAttempts
LoopCond(a, maxAttempts) == a < maxAttempts

\* err == nil after an invocation of fn
ErrIsNilNever(ok) == FALSE
ErrIsNil(ok) == ok

\* readiness of the two cases of the select in Do
CtxCaseReadyAfterTimer(done, fired) == done /\ fired
CtxCaseReady(done, fired) == done
TimerCaseReady(done, fired) == fired

Ev(name, a, e) == [ev |-> name, attempt |-> a, err |-> e]

\* Do, lines 103-107: the calls made before the sleep of a retry iteration,
\* OnRetry(attempt, err) when the hook is set, then Strategy.NextDelay(attempt)
HooksDelayFirst(onRetrySet, a, e) ==
    <<Ev("nextDelay", a, 0)>>
        \o (IF onRetrySet THEN <<Ev("onRetry", a, e)>> ELSE <<>>)
Hooks(onRetrySet, a, e) ==
    (IF onRetrySet THEN <<Ev("onRetry", a, e)>> ELSE <<>>)
        \o <<Ev("nextDelay", a, 0)>>

\* number of invocations of fn recorded in a trace
RECURSIVE CountFn(_)
CountFn(t) ==
    IF t = <<>> THEN 0
    ELSE (IF t[1].ev \in {"fnOk", "fnFail"} THEN 1 ELSE 0) + CountFn(Tail(t))

Invocations == CountFn(trace)

\* the variables of retry.Do while another subsystem is examined
IdleRetry ==
    /\ cfgMaxAttempts = 0 /\ cfgStrategySet = TRUE /\ cfgOnRetrySet = FALSE
    /\ pc = "done" /\ attempt = 0 /\ lastErr = 0 /\ ctxDone = FALSE
    /\ cancelAt = "none" /\ timerFired = FALSE /\ ret = RetNil /\ trace = <<>>

InitRetry ==
    /\ trustedCidrs = <<>> /\ secLogger = "nil" /\ resolved = {}
    /\ IdleLimiter
    /\ IdleBackoff
    /\ cfgMaxAttempts \in -1..MaxAttemptsBound
    /\ cfgStrategySet \in BOOLEAN
    /\ cfgOnRetrySet \in BOOLEAN
    /\ pc = "entry"
    /\ attempt = 0
    /\ lastErr = 0
    /\ ctxDone \in BOOLEAN
    /\ cancelAt = (IF ctxDone THEN "before" ELSE "none")
    /\ timerFired = FALSE
    /\ ret = NoRet
    /\ trace = <<>>

\* Do, lines 72-74
DoValidate ==
    /\ UNCHANGED nonRetry
    /\ pc = "entry"
    /\ IF Validate(cfgMaxAttempts, cfgStrategySet)
       THEN pc' = "call0" /\ ret' = ret
       ELSE pc' = "done" /\ ret' = RetInvalidConfig
    /\ UNCHANGED <<cfgMaxAttempts, cfgStrategySet, cfgOnRetrySet, attempt,
                   lastErr, ctxDone, cancelAt, timerFired, trace>>

\* Do, lines 81-88: the first invocation of fn
DoFirstCall ==
    /\ UNCHANGED nonRetry
    /\ pc = "call0"
    /\ \E ok \in BOOLEAN :
         LET n == Invocations + 1 IN
         /\ trace' = Append(trace, Ev(IF ok THEN "fnOk" ELSE "fnFail", -1, n))
         /\ IF ErrIsNil(ok)
            THEN pc' = "done" /\ ret' = RetNil /\ lastErr' = 0
            ELSE IF cfgMaxAttempts = 0
                 THEN pc' = "done" /\ ret' = RetRaw(n) /\ lastErr' = n
                 ELSE pc' = "loop" /\ ret' = ret /\ lastErr' = n
    /\ attempt' = 0
    /\ UNCHANGED <<cfgMaxAttempts, cfgStrategySet, cfgOnRetrySet, ctxDone, cancelAt,
                   timerFired>>

\* Do, lines 95-113 and 134-142: loop condition, cancellation check, OnRetry,
\* Strategy.NextDelay, and the return after the loop
DoLoopHead ==
    /\ UNCHANGED nonRetry
    /\ pc = "loop"
    /\ IF ~LoopCond(attempt, cfgMaxAttempts)
       THEN /\ pc' = "done"
            /\ ret' = RetMaxAttempts(cfgMaxAttempts, lastErr)
            /\ UNCHANGED <<trace, timerFired>>
       ELSE IF ctxDone
            THEN /\ pc' = "done"
                 /\ ret' = RetCancelled(attempt)
                 /\ UNCHANGED <<trace, timerFired>>
            ELSE /\ pc' = "sleep"
                 /\ ret' = ret
                 /\ timerFired' = FALSE
                 /\ trace' = trace \o Hooks(cfgOnRetrySet, attempt, lastErr)
    /\ UNCHANGED <<cfgMaxAttempts, cfgStrategySet, cfgOnRetrySet, attempt,
                   lastErr, ctxDone, cancelAt>>

\* the delay of time.After(delay) elapses while Do is blocked in the select
TimerFire ==
    /\ UNCHANGED nonRetry
    /\ pc = "sleep"
    /\ ~timerFired
    /\ timerFired' = TRUE
    /\ trace' = Append(trace, Ev("timer", attempt, 0))
    /\ UNCHANGED <<cfgMaxAttempts, cfgStrategySet, cfgOnRetrySet, pc, attempt,
                   lastErr, ctxDone, cancelAt, ret>>

\* Do, lines 115-120: the select takes the case <-ctx.Done()
DoSelectCancel ==
    /\ UNCHANGED nonRetry
    /\ pc = "sleep"
    /\ CtxCaseReady(ctxDone, timerFired)
    /\ pc' = "done"
    /\ ret' = RetCancelledDelay(attempt)
    /\ UNCHANGED <<cfgMaxAttempts, cfgStrategySet, cfgOnRetrySet, attempt,
                   lastErr, ctxDone, cancelAt, timerFired, trace>>

\* Do, lines 121-122: the select takes the case <-time.After(delay); when both
\* channels are ready Go chooses one of the two cases at random
DoSelectTimer ==
    /\ UNCHANGED nonRetry
    /\ pc = "sleep"
    /\ TimerCaseReady(ctxDone, timerFired)
    /\ pc' = "call"
    /\ UNCHANGED <<cfgMaxAttempts, cfgStrategySet, cfgOnRetrySet, attempt,
                   lastErr, ctxDone, cancelAt, timerFired, ret, trace>>

\* Do, lines 124-132: re-invocation of fn and the loop increment
DoRetryCall ==
    /\ UNCHANGED nonRetry
    /\ pc = "call"
    /\ \E ok \in BOOLEAN :
         LET n == Invocations + 1 IN
         /\ trace' = Append(trace, Ev(IF ok THEN "fnOk" ELSE "fnFail", attempt, n))
         /\ IF ErrIsNil(ok)
            THEN pc' = "done" /\ ret' = RetNil /\ lastErr' = 0
                 /\ attempt' = attempt
            ELSE pc' = "loop" /\ ret' = ret /\ lastErr' = n
                 /\ attempt' = attempt + 1
    /\ UNCHANGED <<cfgMaxAttempts, cfgStrategySet, cfgOnRetrySet, ctxDone, cancelAt,
                   timerFired>>

\* the caller cancels the context (or its deadline passes) while Do runs
Cancel ==
    /\ UNCHANGED nonRetry
    /\ pc # "done"
    /\ ~ctxDone
    /\ ctxDone' = TRUE
    /\ cancelAt' = (IF pc = "sleep" /\ timerFired THEN "sleepElapsed" ELSE pc)
    /\ trace' = Append(trace, Ev("cancel", attempt, 0))
    /\ UNCHANGED <<cfgMaxAttempts, cfgStrategySet, cfgOnRetrySet, pc, attempt,
                   lastErr, timerFired, ret>>

NextRetry ==
    \/ DoValidate
    \/ DoFirstCall
    \/ DoLoopHead
    \/ TimerFire
    \/ DoSelectCancel
    \/ DoSelectTimer
    \/ DoRetryCall
    \/ Cancel

SpecRetry == InitRetry /\ [][NextRetry]_vars

(***************************************************************************)
(* Requests resolved by ByIP                                               *)
(***************************************************************************)
InitConfig ==
    /\ trustedCidrs \in TrustedConfigs
    /\ secLogger \in SecLoggers

InitIdentity ==
    /\ IdleRetry
    /\ IdleLimiter
    /\ IdleBackoff
    /\ InitConfig
    /\ resolved = {}

\* one request goes through the ByIP strategy
Resolve(peer, xff) ==
    /\ Cardinality(resolved) < MaxResolved
    /\ LET r == ByIP(trustedCidrs, secLogger, peer, xff) IN
       resolved' = resolved \cup
           {[peer |-> peer, xff |-> xff, id |-> r.id, events |-> r.events]}
    /\ UNCHANGED cvars
    /\ UNCHANGED nonIdentity

NextIdentity == \E peer \in PeerAddrs, xff \in ForwardedValues : Resolve(peer, xff)

SpecIdentity == InitIdentity /\ [][NextIdentity]_vars

(***************************************************************************)
(* RateLimiter.Limit with the ByIP strategy (GlobalLimit)                  *)
(***************************************************************************)
\* RateLimitRule.Limit of the rule in force
RuleLimit == 2

\* results of limiter.Allow: an error, or a redis_rate.Result
StoreResults ==
    { [err |-> TRUE, Allowed |-> 0, Remaining |-> 0],
      [err |-> FALSE, Allowed |-> 1, Remaining |-> 1],
      [err |-> FALSE, Allowed |-> 0, Remaining |-> 0] }

\* requests offered to the limiter: RemoteAddr and X-Forwarded-For
LimiterRequests ==
    { [peer |-> HostPort(IPv4(203, 0, 113, 1), 5555), xff |-> <<>>],
      [peer |-> HostPort(IPv4(203, 0, 113, 1), 5555),
       xff |-> IPv4(203, 0, 113, 9) \o <<Comma, Space>> \o IPv4(10, 0, 0, 5)] }

\* key = rule.Strategy(r); "default" when empty; prefixed with "ratelimit:"
RateLimitKey(id) ==
    <<[t |-> "ratelimit:", v |-> 0]>>
        \o (IF id = <<>> THEN <<[t |-> "default", v |-> 0]>> ELSE id)

\* Limit, lines 142-145: limiter disabled or no Redis client
ResponsePassThroughLimited(req) ==
    [peer |-> req.peer, xff |-> req.xff, key |-> <<>>, status |-> 429,
     next |-> FALSE, headers |-> {<<"X-RateLimit-Limit", RuleLimit>>},
     events |-> {}, storeCalled |-> FALSE, err |-> "nil",
     allowed |-> -1]
ResponsePassThrough(req) ==
    [peer |-> req.peer, xff |-> req.xff, key |-> <<>>, status |-> 200,
     next |-> TRUE, headers |-> {}, events |-> {}, storeCalled |-> FALSE, allowed |-> -1,
     err |-> "nil"]

\* Limit, lines 162-173: circuitBreaker.Execute returned an error
ResponseUnavailable(req, key, events, storeCalled, err) ==
    [peer |-> req.peer, xff |-> req.xff, key |-> key, status |-> 503,
     next |-> FALSE, headers |-> {},
     events |-> events \cup LogEvent(secLogger, "circuit_breaker_open"),
     storeCalled |-> storeCalled, err |-> err, allowed |-> -1]

\* Limit, lines 175-192: the store answered
ResponseFromStoreAlwaysRetryAfter(req, key, events, res) ==
    LET quota == { <<"X-RateLimit-Limit", RuleLimit>>,
                   <<"X-RateLimit-Remaining", res.Remaining>>,
                   <<"X-RateLimit-Reset", 0>>, <<"Retry-After", 0>> }
    IN  IF res.Allowed = 0
        THEN [peer |-> req.peer, xff |-> req.xff, key |-> key, status |-> 429,
              next |-> FALSE, headers |-> quota,
              events |-> events \cup LogEvent(secLogger, "rate_limit_exceeded"),
              storeCalled |-> TRUE, err |-> "nil", allowed |-> res.Allowed]
        ELSE [peer |-> req.peer, xff |-> req.xff, key |-> key, status |-> 200,
              next |-> TRUE, headers |-> quota, events |-> events,
              storeCalled |-> TRUE, err |-> "nil", allowed |-> res.Allowed]
ResponseFromStore(req, key, events, res) ==
    LET quota == { <<"X-RateLimit-Limit", RuleLimit>>,
                   <<"X-RateLimit-Remaining", res.Remaining>>,
                   <<"X-RateLimit-Reset", 0>> }
    IN  IF res.Allowed = 0
        THEN [peer |-> req.peer, xff |-> req.xff, key |-> key, status |-> 429,
              next |-> FALSE, headers |-> quota \cup {<<"Retry-After", 0>>},
              events |-> events \cup LogEvent(secLogger, "rate_limit_exceeded"),
              storeCalled |-> TRUE, err |-> "nil", allowed |-> res.Allowed]
        ELSE [peer |-> req.peer, xff |-> req.xff, key |-> key, status |-> 200,
              next |-> TRUE, headers |-> quota, events |-> events,
              storeCalled |-> TRUE, err |-> "nil", allowed |-> res.Allowed]

InitLimiter ==
    /\ IdleRetry
    /\ IdleBackoff
    /\ resolved = {}
    /\ trustedCidrs = <<CIDR(IPv4(10, 0, 0, 0), 8)>>
    /\ secLogger \in {"noSink", "sink"}
    /\ rlEnabled \in BOOLEAN
    /\ rlRedis \in BOOLEAN
    /\ now = 0
    /\ cb = NewCircuitBreaker(0)
    /\ inflight = EmptyBag
    /\ last = NoResponse
    /\ cbOp = NoOp

\* Limit, lines 141-161: a request enters the handler; with the limiter on,
\* the key is computed and circuitBreaker.Execute runs up to the store call
Begin(req) ==
    IF ~rlEnabled \/ ~rlRedis
    THEN /\ last' = ResponsePassThrough(req)
         /\ UNCHANGED <<cvars, rlEnabled, rlRedis, cb, now, inflight, cbOp>>
         /\ UNCHANGED nonLimiter
    ELSE LET r == ByIP(trustedCidrs, secLogger, req.peer, req.xff)
             key == RateLimitKey(r.id)
             pre == CurrentState(cb, now)
             b == BeforeRequest(cb, now)
         IN  /\ cb' = b.cb
             /\ cbOp' = [op |-> IF b.err = "nil" THEN "admit" ELSE "reject",
                         prev |-> cb.state, prevExpiry |-> cb.expiry,
                         from |-> pre.state, at |-> now, counts |-> b.cb.counts,
                         tripped |-> cbOp.tripped]
             /\ IF b.err = "nil"
                THEN /\ BagCardinality(inflight) < MaxInFlight
                     /\ pre.counts.Requests < MaxWindowRequests
                     /\ inflight' = inflight (+) SetToBag(
                            {[gen |-> b.generation, peer |-> req.peer,
                              xff |-> req.xff, key |-> key, events |-> r.events]})
                     /\ last' = NoResponse
                ELSE /\ inflight' = inflight
                     /\ last' = ResponseUnavailable(req, key, r.events, FALSE, b.err)
             /\ UNCHANGED <<cvars, rlEnabled, rlRedis, now>>
             /\ UNCHANGED nonLimiter

\* Limit, lines 159-192: limiter.Allow returns, circuitBreaker.Execute records
\* the result, and the handler answers
StoreReturn ==
    \E q \in BagToSet(inflight) : \E res \in StoreResults :
    /\ inflight' = inflight (-) SetToBag({q})
    /\ LET pre == CurrentState(cb, now) IN
       /\ cb' = AfterRequest(cb, q.gen, ~res.err, now)
       /\ cbOp' = [op |-> IF pre.generation # q.gen THEN "stale"
                          ELSE IF res.err THEN "failure" ELSE "success",
                   prev |-> cb.state, prevExpiry |-> cb.expiry,
                   from |-> pre.state, at |-> now,
                   counts |-> RecordedCounts(cb, q.gen, ~res.err, now),
                   tripped |-> IF pre.state = "closed" /\ cb'.state = "open"
                               THEN RecordedCounts(cb, q.gen, ~res.err, now)
                               ELSE cbOp.tripped]
    /\ last' = IF res.err
               THEN ResponseUnavailable(q, q.key, q.events, TRUE, "store")
               ELSE ResponseFromStore(q, q.key, q.events, res)
    /\ UNCHANGED <<cvars, rlEnabled, rlRedis, now>>
    /\ UNCHANGED nonLimiter

\* time passes
Tick ==
    /\ now + TickStep <= MaxTime
    /\ now' = now + TickStep
    /\ last' = NoResponse
    /\ cbOp' = [NoOp EXCEPT !.tripped = cbOp.tripped]
    /\ UNCHANGED <<cvars, rlEnabled, rlRedis, cb, inflight>>
    /\ UNCHANGED nonLimiter

NextLimiter ==
    \/ \E req \in LimiterRequests : Begin(req)
    \/ StoreReturn
    \/ Tick

SpecLimiter == InitLimiter /\ [][NextLimiter]_vars

(***************************************************************************)
(* The rate limiter with a breaker that has tripped.  Time is counted from *)
(* the first instant examined: the limiter was built, and three store      *)
(* calls failed in a row, one Timeout and one clock step before it.        *)
(***************************************************************************)
\* the breaker made at time t once three calls admitted at t have failed,
\* and the counts that opened it
TrippedAt(t) ==
    LET made == NewCircuitBreaker(t)
        one == BeforeRequest(made, t).cb
        two == BeforeRequest(one, t).cb
        three == BeforeRequest(two, t).cb
        failed == AfterRequest(AfterRequest(three, made.generation, FALSE, t),
                               made.generation, FALSE, t)
    IN  [cb |-> AfterRequest(failed, made.generation, FALSE, t),
         counts |-> RecordedCounts(failed, made.generation, FALSE, t)]

InitTripped ==
    /\ IdleRetry
    /\ IdleBackoff
    /\ resolved = {}
    /\ trustedCidrs = <<CIDR(IPv4(10, 0, 0, 0), 8)>>
    /\ secLogger = "sink"
    /\ rlEnabled = TRUE
    /\ rlRedis = TRUE
    /\ now = 0
    /\ cb = TrippedAt(0 - Timeout - TickStep).cb
    /\ inflight = EmptyBag
    /\ last = NoResponse
    /\ cbOp = [NoOp EXCEPT !.tripped = TrippedAt(0 - Timeout - TickStep).counts]

SpecTripped == InitTripped /\ [][NextLimiter]_vars

(***************************************************************************)
(* The documented middleware chain: RealIP runs before the rate limiter,   *)
(* so ByIP sees the RemoteAddr that RealIP has left in the request.        *)
(***************************************************************************)
\* RealIP: the RemoteAddr of the request handed to the next handler
RealIP(remoteAddr, realIP, forwarded) ==
    IF realIP # <<>> THEN realIP
    ELSE IF forwarded # <<>>
    THEN LET ip == TrimSpace(SplitFirst(forwarded)) IN
         IF ParseIP(ip) # <<>> THEN ip ELSE remoteAddr
    ELSE remoteAddr

\* requests sent through the chain: the peer of the connection and the
\* values of the headers X-Real-IP and X-Forwarded-For (<<>> when absent)
ChainPeers ==
    { HostPort(IPv4(203, 0, 113, 1), 5555), HostPort(IPv4(10, 0, 0, 5), 1234) }
RealIPValues == { <<>>, IPv4(10, 0, 0, 5), <<Letter>> }
ChainForwardedValues ==
    { <<>>,
      IPv4(203, 0, 113, 9) \o <<Comma, Space>> \o IPv4(10, 0, 0, 5),
      <<Letter>> \o <<Comma>> \o IPv4(10, 0, 0, 5) }

InitChain ==
    /\ IdleRetry
    /\ IdleLimiter
    /\ IdleBackoff
    /\ trustedCidrs = <<CIDR(IPv4(10, 0, 0, 0), 8)>>
    /\ secLogger \in SecLoggers
    /\ resolved = {}

\* one request goes through RealIP and then through the ByIP strategy of
\* the rate limiter
ThroughChain(peer, realIP, xff) ==
    /\ Cardinality(resolved) < MaxResolved
    /\ LET addr == RealIP(peer, realIP, xff)
           r == ByIP(trustedCidrs, secLogger, addr, xff)
       IN  resolved' = resolved \cup
               {[peer |-> peer, realIP |-> realIP, xff |-> xff, id |-> r.id,
                 key |-> RateLimitKey(r.id), events |-> r.events,
                 trusted |-> isTrustedProxy(parseTrustedProxies(trustedCidrs),
                                            parseIP(addr))]}
    /\ UNCHANGED cvars
    /\ UNCHANGED nonIdentity

NextChain ==
    \E peer \in ChainPeers, realIP \in RealIPValues, xff \in ChainForwardedValues :
        ThroughChain(peer, realIP, xff)

SpecChain == InitChain /\ [][NextChain]_vars

(***************************************************************************)
(* A BackoffStrategy in use.  The strategy cannot tell its callers apart,  *)
(* so calls in any order stand for any number of retry sequences sharing   *)
(* the instance.                                                           *)
(***************************************************************************)
\* calls recorded in one behaviour
MaxCalls == 3

\* float64 values of ExponentialBackoffConfig.Factor
OneAndHalf == Round(3, -1)
Factors == {One, OneAndHalf, NaN}

ExponentialConfigs ==
    { [Min |-> mn, Max |-> mx, Factor |-> f, Jitter |-> FALSE] :
        mn \in {0, 3}, mx \in {0, 35, MaxInt}, f \in Factors }
    \cup { [Min |-> 3, Max |-> 20, Factor |-> One, Jitter |-> TRUE],
           [Min |-> 3, Max |-> MaxInt, Factor |-> OneAndHalf, Jitter |-> TRUE] }

LinearConfigs ==
    { [increment |-> i, max |-> m] : i \in {0, 3, 64}, m \in {1, 20, MaxInt} }

ConstantDelays == {0, 5}

\* values of the attempt argument
Attempts == {-1, 0, 1, 2, 5, MaxInt}

InitBackoff ==
    /\ IdleRetry
    /\ trustedCidrs = <<>> /\ secLogger = "nil" /\ resolved = {}
    /\ IdleLimiter
    /\ goarch \in Architectures
    /\ strategy \in
         {NewExponentialBackoff(c) : c \in ExponentialConfigs}
         \cup {NewLinearBackoff(c.increment, c.max) : c \in LinearConfigs}
         \cup {NewConstantBackoff(d) : d \in ConstantDelays}
    /\ calls = <<>>

\* a retry sequence calls Strategy.NextDelay(attempt)
CallNextDelay(k) ==
    /\ Len(calls) < MaxCalls
    /\ \E d \in NextDelay(strategy, k, goarch) :
         calls' = Append(calls, [op |-> "NextDelay", attempt |-> k, delay |-> d])
    /\ UNCHANGED <<goarch, strategy>>
    /\ UNCHANGED nonBackoff

\* a caller calls Strategy.Reset()
CallReset ==
    /\ Len(calls) < MaxCalls
    /\ calls' = Append(calls, [op |-> "Reset", attempt |-> 0, delay |-> 0])
    /\ strategy' = Reset(strategy)
    /\ goarch' = goarch
    /\ UNCHANGED nonBackoff

NextBackoff ==
    \/ \E k \in Attempts : CallNextDelay(k)
    \/ CallReset

SpecBackoff == InitBackoff /\ [][NextBackoff]_vars

(***************************************************************************)
(* Properties of retry.Do (checked under SpecRetry)                        *)
(***************************************************************************)
FnIdx == {i \in 1..Len(trace) : trace[i].ev \in {"fnOk", "fnFail"}}
OkIdx == {i \in 1..Len(trace) : trace[i].ev = "fnOk"}
FailIdx == {i \in 1..Len(trace) : trace[i].ev = "fnFail"}
CancelIdx == {i \in 1..Len(trace) : trace[i].ev = "cancel"}
TimerIdx == {i \in 1..Len(trace) : trace[i].ev = "timer"}
ValidConfig == Validate(cfgMaxAttempts, cfgStrategySet)

\* C1: with a valid config and MaxAttempts = N >= 0, whatever fn returns and
\* whenever the context is cancelled, fn is invoked at most N+1 times.
C1_AtMostNPlusOne ==
    ValidConfig => Invocations <= cfgMaxAttempts + 1

\* C1 witness: Do has returned after the full N+1 invocations, N the largest
\* configured value, with the context cancelled on the way.
C1_Witness ==
    /\ ValidConfig /\ pc = "done" /\ ctxDone
    /\ cfgMaxAttempts = MaxAttemptsBound
    /\ Invocations = cfgMaxAttempts + 1

\* C2: fn fails on every invocation, the context is never cancelled, N >= 1:
\* Do invokes fn exactly N+1 times and returns ErrMaxAttemptsReached.
C2_AlwaysFailing ==
    (ValidConfig /\ cfgMaxAttempts >= 1 /\ pc = "done" /\ ~ctxDone /\ OkIdx = {})
        => /\ Invocations = cfgMaxAttempts + 1
           /\ ret.kind = "ErrMaxAttemptsReached"

\* C2 witness: an exhausted sequence of the largest length, never cancelled.
C2_Witness ==
    /\ ValidConfig /\ cfgMaxAttempts = MaxAttemptsBound /\ pc = "done"
    /\ ~ctxDone /\ OkIdx = {}
    /\ Cardinality(FailIdx) = cfgMaxAttempts + 1

\* C3: fn fails k times and then succeeds (k <= MaxAttempts, no cancellation):
\* Do invokes it exactly k+1 times and returns nil; once fn has succeeded it is
\* never invoked again.
C3_FirstSuccessEnds ==
    \A i \in OkIdx :
        /\ \A j \in FnIdx : j <= i
        /\ pc = "done"
        /\ ret = RetNil
        /\ Invocations = Cardinality(FailIdx) + 1
        /\ Cardinality(FailIdx) <= cfgMaxAttempts

\* C3 witness: MaxAttempts = 3, two failures and then a success, no
\* cancellation: three invocations and a nil result.
C3_Witness ==
    /\ cfgMaxAttempts = 3 /\ ~ctxDone /\ pc = "done"
    /\ Cardinality(FailIdx) = 2 /\ Cardinality(OkIdx) = 1
    /\ Invocations = 3 /\ ret = RetNil

Exhausted ==
    /\ ValidConfig /\ pc = "done"
    /\ OkIdx = {}
    /\ Invocations = cfgMaxAttempts + 1

\* C20 as stated: when every allowed attempt is exhausted, Do returns the
\* max-attempts-reached error, wrapping the error of the last invocation and
\* annotated with the total number of attempts made.
C20_Original ==
    Exhausted =>
        /\ ret.kind = "ErrMaxAttemptsReached"
        /\ ret.err = Invocations
        /\ ret.attempt = Invocations

\* C20 amended: with MaxAttempts = N >= 1, once all N+1 invocations have
\* failed Do returns ErrMaxAttemptsReached wrapping the error of the last,
\* (N+1)-th, invocation and annotated with attempts = N, the configured
\* MaxAttempts, one less than the invocations made; with N = 0 it returns
\* the error of the single invocation as it is.  Do returns
\* ErrMaxAttemptsReached in no other case.
C20_WrapsLastError ==
    /\ Exhausted =>
          IF cfgMaxAttempts = 0
          THEN ret = RetRaw(1)
          ELSE /\ ret.kind = "ErrMaxAttemptsReached"
               /\ ret.err = cfgMaxAttempts + 1
               /\ \A i \in FailIdx : trace[i].err <= ret.err
               /\ ret.attempt = cfgMaxAttempts
               /\ ret.attempt = Invocations - 1
    /\ ret.kind = "ErrMaxAttemptsReached" => (Exhausted /\ cfgMaxAttempts >= 1)

\* C20 witness: with the largest MaxAttempts and an OnRetry hook, the hook
\* last saw the error of the invocation before the last one, and Do returned
\* ErrMaxAttemptsReached wrapping the error of the last one.
C20_Witness ==
    /\ Exhausted /\ cfgMaxAttempts = MaxAttemptsBound /\ cfgOnRetrySet
    /\ ret.kind = "ErrMaxAttemptsReached"
    /\ ret.err = MaxAttemptsBound + 1
    /\ ret.attempt = MaxAttemptsBound
    /\ \E i \in 1..Len(trace) :
         /\ trace[i].ev = "onRetry" /\ trace[i].err = MaxAttemptsBound
         /\ \A j \in (i + 1)..Len(trace) : trace[j].ev # "onRetry"

(***************************************************************************)
(* Properties of ByIP (checked under SpecIdentity)                         *)
(***************************************************************************)
\* the peer address without its port: "a.b.c.d:port" gives "a.b.c.d"
HostOf(peer) ==
    LET colons == {i \in 1..Len(peer) : peer[i] = Colon} IN
    IF Cardinality(colons) = 1
    THEN SubSeq(peer, 1, (CHOOSE i \in colons : TRUE) - 1)
    ELSE peer

\* binary expansion of an IPv4 address, most significant bit first
IPBits(ip) ==
    [i \in 1..32 |-> (ip[((i - 1) \div 8) + 1] \div Pow2(7 - ((i - 1) % 8))) % 2]

\* a well-formed entry "a.b.c.d/n" of the trusted list, n <= 32
WellFormedRange(c) ==
    /\ Len(c) = 9 /\ c[8] = Slash /\ c[9].t = "num" /\ c[9].v \in 0..32
    /\ ParseIP(SubSeq(c, 1, 7)) # <<>>

\* the peer address lies in a configured trusted CIDR range
PeerTrusted(peer) ==
    LET ip == ParseIP(HostOf(peer)) IN
    /\ ip # <<>>
    /\ \E k \in 1..Len(trustedCidrs) :
         /\ WellFormedRange(trustedCidrs[k])
         /\ LET peerBits == IPBits(ip)
                rangeBits == IPBits(ParseIP(SubSeq(trustedCidrs[k], 1, 7)))
            IN  \A i \in 1..trustedCidrs[k][9].v : peerBits[i] = rangeBits[i]

\* id is the left-most comma-separated entry of xff without the surrounding
\* whitespace
IsLeftmostTrimmed(id, xff) ==
    \E a \in 0..Len(xff) : \E b \in (a + Len(id))..Len(xff) :
        /\ id = SubSeq(xff, a + 1, a + Len(id))
        /\ \A i \in 1..a : xff[i] = Space
        /\ \A i \in (a + Len(id) + 1)..b : xff[i] = Space
        /\ b = Len(xff) \/ xff[b + 1] = Comma
        /\ \A i \in 1..Len(id) : id[i] # Comma
        /\ id # <<>> => (id[1] # Space /\ id[Len(id)] # Space)

\* C6: the forwarded header is honoured only for a peer inside a trusted
\* range: for a peer outside every trusted range, two requests that differ
\* only in X-Forwarded-For resolve to the same identity, the peer address.
C6_UntrustedIgnoresForwarded ==
    /\ \A r \in resolved : r.id # HostOf(r.peer) => PeerTrusted(r.peer)
    /\ \A r1, r2 \in resolved :
         (r1.peer = r2.peer /\ ~PeerTrusted(r1.peer))
            => (r1.id = r2.id /\ r1.id = HostOf(r1.peer))

\* C6 witness: two requests of one untrusted peer with different non-empty
\* forwarded values, while a trusted range is configured.
C6_Witness ==
    \E r1, r2 \in resolved :
        /\ r1.peer = r2.peer /\ ~PeerTrusted(r1.peer)
        /\ r1.xff # r2.xff /\ r1.xff # <<>> /\ r2.xff # <<>>
        /\ \E k \in 1..Len(trustedCidrs) : WellFormedRange(trustedCidrs[k])
        /\ r1.id = r2.id

\* C7: for a peer inside a trusted range and a non-empty forwarded header the
\* identity is the left-most comma-separated entry, whitespace trimmed; peer
\* 10.0.0.5 in 10.0.0.0/8 with "203.0.113.9, 10.0.0.5" gives 203.0.113.9.
C7_TrustedUsesLeftmost ==
    \A r \in resolved :
        /\ (PeerTrusted(r.peer) /\ r.xff # <<>>) => IsLeftmostTrimmed(r.id, r.xff)
        /\ ( /\ trustedCidrs = <<CIDR(IPv4(10, 0, 0, 0), 8)>>
             /\ r.peer = HostPort(IPv4(10, 0, 0, 5), 1234)
             /\ r.xff = IPv4(203, 0, 113, 9) \o <<Comma, Space>> \o IPv4(10, 0, 0, 5) )
           => r.id = IPv4(203, 0, 113, 9)

\* C7 witness: the example of the specification, and a header whose first
\* entry carries whitespace on both sides.
C7_Witness ==
    /\ trustedCidrs = <<CIDR(IPv4(10, 0, 0, 0), 8)>>
    /\ \E r \in resolved :
         /\ r.peer = HostPort(IPv4(10, 0, 0, 5), 1234)
         /\ r.xff = IPv4(203, 0, 113, 9) \o <<Comma, Space>> \o IPv4(10, 0, 0, 5)
         /\ r.id = IPv4(203, 0, 113, 9)
    /\ \E r \in resolved :
         /\ PeerTrusted(r.peer)
         /\ r.xff = <<Space>> \o IPv4(192, 168, 1, 1) \o <<Space, Comma>> \o IPv4(10, 0, 0, 5)
         /\ r.id = IPv4(192, 168, 1, 1)

\* C8 as stated: an untrusted peer with a forwarded header resolves to the
\* peer address (port stripped) and a suspected-spoofing event is reported;
\* the event is reported exactly when an untrusted peer sends a non-empty
\* forwarded header.
C8_Original ==
    \A r \in resolved :
        /\ (~PeerTrusted(r.peer) /\ r.xff # <<>>) => r.id = HostOf(r.peer)
        /\ ("ip_spoofing" \in r.events) <=> (~PeerTrusted(r.peer) /\ r.xff # <<>>)

\* C8 amended: the identity is the peer address (port stripped); the event is
\* reported exactly when an untrusted peer sends a non-empty forwarded header
\* and the limiter has a security logger with a log sink.
C8_UntrustedForwardedFlagged ==
    \A r \in resolved :
        /\ (~PeerTrusted(r.peer) /\ r.xff # <<>>) => r.id = HostOf(r.peer)
        /\ ("ip_spoofing" \in r.events)
             <=> (~PeerTrusted(r.peer) /\ r.xff # <<>> /\ secLogger = "sink")

\* C8 witness: the example of the specification: peer 203.0.113.1 outside
\* 10.0.0.0/8 sends "203.0.113.9, 10.0.0.5", resolves to 203.0.113.1 and is
\* flagged.
C8_Witness ==
    /\ trustedCidrs = <<CIDR(IPv4(10, 0, 0, 0), 8)>> /\ secLogger = "sink"
    /\ \E r \in resolved :
         /\ r.peer = HostPort(IPv4(203, 0, 113, 1), 5555)
         /\ r.xff = IPv4(203, 0, 113, 9) \o <<Comma, Space>> \o IPv4(10, 0, 0, 5)
         /\ r.id = IPv4(203, 0, 113, 1)
         /\ r.events = {"ip_spoofing"}

(***************************************************************************)
(* Properties of RateLimiter.Limit and its breaker (under SpecLimiter)     *)
(***************************************************************************)
\* failures/requests >= 0.6 with at least 3 requests
AtThreshold(c) == c.Requests >= 3 /\ 10 * c.TotalFailures >= 6 * c.Requests

\* C5: when the quota store is unavailable (the breaker rejects the call
\* because it is open, or the store call returns an error) the request is
\* passed to the protected handler, no quota headers are attached and a
\* store-unavailable event is emitted.
C5_FailOpen ==
    last.err \in {"ErrOpenState", "store"} =>
        /\ last.next
        /\ last.headers = {}
        /\ "circuit_breaker_open" \in last.events

\* C9 as stated: once at least 3 calls have been recorded in the current
\* window with failures/requests >= 0.6, in whatever order, the breaker is Open.
C9_Original ==
    ( /\ cb.counts.TotalSuccesses + cb.counts.TotalFailures >= 3
      /\ 10 * cb.counts.TotalFailures >= 6 * cb.counts.Requests )
        => cb.state = "open"

\* C9 amended: in the Closed state a call that fails and leaves, itself
\* included, requests >= 3 and failures/requests >= 0.6 in the current window
\* opens the breaker for 30s; a success never opens it, nor does a failure
\* below the threshold; and while the breaker is Open and the 30s have not
\* passed, a call is rejected with ErrOpenState without invoking the operation.
C9_FailureAtThresholdOpens ==
    /\ (cbOp.op = "failure" /\ cbOp.from = "closed" /\ AtThreshold(cbOp.counts))
         => (cb.state = "open" /\ cb.expiry = cbOp.at + 30 /\ cb.counts = ZeroCounts)
    /\ (cbOp.op = "failure" /\ cbOp.from = "closed" /\ ~AtThreshold(cbOp.counts))
         => cb.state = "closed"
    /\ (cbOp.op = "success" /\ cbOp.from = "closed") => cb.state = "closed"
    /\ (cbOp.op \in {"admit", "reject"} /\ cbOp.prev = "open"
            /\ cbOp.at <= cbOp.prevExpiry)
         => /\ cbOp.op = "reject"
            /\ last.err = "ErrOpenState"
            /\ ~last.storeCalled

\* C9 witness: the breaker was opened by a failure at exactly 3 failures in 5
\* requests (ratio 0.6, successes and failures mixed), and the next call has
\* been rejected without a store call.
C9_Witness ==
    /\ cbOp.op = "reject" /\ cbOp.prev = "open"
    /\ cbOp.tripped.Requests = 5 /\ cbOp.tripped.TotalFailures = 3
    /\ cbOp.tripped.TotalSuccesses = 2
    /\ last.err = "ErrOpenState" /\ ~last.storeCalled

\* C10 as stated: the first call admitted after openDuration succeeds, and
\* the breaker is Closed.
C10_Original ==
    (cbOp.op = "success" /\ cbOp.from = "halfOpen" /\ cbOp.counts.Requests = 1)
        => cb.state = "closed"

\* C10 amended: once more than 30s have passed since the breaker opened, the
\* next call is admitted and invokes the operation (HalfOpen); the breaker is
\* Closed only once 3 consecutive trial calls have succeeded (MaxRequests),
\* until then it stays HalfOpen; once Closed, calls are allowed.
C10_HalfOpenThenClosed ==
    /\ (cbOp.op \in {"admit", "reject"} /\ cbOp.prev = "open"
            /\ cbOp.at > cbOp.prevExpiry)
         => (cbOp.op = "admit" /\ cbOp.from = "halfOpen" /\ inflight # EmptyBag)
    /\ (cbOp.op = "success" /\ cbOp.from = "halfOpen")
         => IF cbOp.counts.ConsecutiveSuccesses >= 3
            THEN cb.state = "closed" /\ cb.counts = ZeroCounts
            ELSE cb.state = "halfOpen"
    /\ (cbOp.op \in {"admit", "reject"} /\ cbOp.from = "closed")
         => cbOp.op = "admit"

\* C10 witness: the breaker had opened, and the third consecutive trial
\* success has closed it again.
C10_Witness ==
    /\ cbOp.op = "success" /\ cbOp.from = "halfOpen"
    /\ cbOp.counts.ConsecutiveSuccesses = 3
    /\ cbOp.tripped.Requests >= 3
    /\ cb.state = "closed" /\ now > 30

\* the state changes gobreaker can make
LegalTransitions ==
    { <<"closed", "open">>, <<"open", "halfOpen">>,
      <<"halfOpen", "closed">>, <<"halfOpen", "open">> }

\* C11: every state change of the circuit breaker, over any sequence of calls
\* and elapsed time, is Closed->Open, Open->HalfOpen, HalfOpen->Closed or
\* HalfOpen->Open; never Closed->HalfOpen nor Open->Closed directly.
C11_OnlyLegalTransitions ==
    [][cb'.state # cb.state => <<cb.state, cb'.state>> \in LegalTransitions]_vars

\* C11 witness: a trial call has failed and sent the breaker from HalfOpen
\* back to Open, after it had tripped from Closed and waited out the timeout.
C11_Witness ==
    /\ cbOp.op = "failure" /\ cbOp.prev = "halfOpen" /\ cb.state = "open"
    /\ cbOp.tripped.Requests >= 3

\* the time the breaker entered the Open state, given the expiry it set then
OpenedAt(expiry) == expiry - Timeout

\* C12: while the breaker is Open and less than openDuration (30s) has
\* elapsed since it opened, every rate-limited request is rejected with the
\* breaker-open error (503, handler not run) and limiter.Allow is not invoked.
C12_OpenRejectsWithoutStore ==
    ( /\ cbOp.op \in {"admit", "reject"} /\ cbOp.prev = "open"
      /\ cbOp.at - OpenedAt(cbOp.prevExpiry) < 30 )
        => /\ cbOp.op = "reject"
           /\ cb.state = "open"
           /\ last.peer # <<>>
           /\ last.err = "ErrOpenState"
           /\ last.status = 503
           /\ ~last.next
           /\ ~last.storeCalled

\* C12 witness: some time after the breaker opened, but before the 30s are
\* over, a request has been answered 503 without a store call.
C12_Witness ==
    /\ cbOp.op = "reject" /\ cbOp.prev = "open"
    /\ cbOp.at > OpenedAt(cbOp.prevExpiry)
    /\ cbOp.at - OpenedAt(cbOp.prevExpiry) < 30
    /\ last.status = 503 /\ last.err = "ErrOpenState"
    /\ ~last.storeCalled /\ ~last.next

\* C13: with the limiter disabled or no Redis client attached, every request
\* is passed to the protected handler unconditionally; the key strategy, the
\* circuit breaker and the store are not invoked and no quota headers are set.
C13_DisabledPassesThrough ==
    (~rlEnabled \/ ~rlRedis) =>
        /\ cb = NewCircuitBreaker(0)
        /\ cbOp = NoOp
        /\ inflight = EmptyBag
        /\ last.peer # <<>> =>
              /\ last.next
              /\ last.status = 200
              /\ last.headers = {}
              /\ last.key = <<>>
              /\ last.events = {}
              /\ ~last.storeCalled

\* C13 witness: the limiter is enabled but has no Redis client, the security
\* logger has a sink, and a request from an untrusted peer carrying
\* X-Forwarded-For has reached the handler some time after start-up.
C13_Witness ==
    /\ rlEnabled /\ ~rlRedis /\ secLogger = "sink"
    /\ now > 0
    /\ last.peer # <<>> /\ last.xff # <<>>
    /\ last.next /\ last.headers = {} /\ last.events = {}

\* the names of the headers of a response
HeaderNames(resp) == {h[1] : h \in resp.headers}

\* the request was denied because the store reported the quota exhausted
QuotaExhausted(resp) ==
    resp.storeCalled /\ resp.err = "nil" /\ resp.allowed = 0

OutcomeOf(err, allowed) ==
    CASE err # "nil" ->
            [status |-> 503, next |-> FALSE, headers |-> {},
             events |-> LogEvent(secLogger, "circuit_breaker_open")]
      [] allowed = 0 ->
            [status |-> 429, next |-> FALSE,
             headers |-> {"X-RateLimit-Limit", "X-RateLimit-Remaining",
                          "X-RateLimit-Reset", "Retry-After"},
             events |-> LogEvent(secLogger, "rate_limit_exceeded")]
      [] OTHER ->
            [status |-> 200, next |-> TRUE,
             headers |-> {"X-RateLimit-Limit", "X-RateLimit-Remaining",
                          "X-RateLimit-Reset"},
             events |-> {}]

\* C15: flagging suspected spoofing never causes a deny: requests from the
\* same untrusted peer, with or without X-Forwarded-For, get the same
\* rate-limit key (the peer address), and the outcome (status, handler call,
\* headers) is the one the breaker's verdict and the store's answer determine,
\* not the header; the request with the header differs at most by the
\* ip_spoofing security event.
C15_FlagDoesNotChangeOutcome ==
    /\ \A q1 \in BagToSet(inflight), q2 \in BagToSet(inflight) :
         (q1.peer = q2.peer /\ q1.key # q2.key) => PeerTrusted(q1.peer)
    /\ \A q \in BagToSet(inflight) :
         /\ q.events \subseteq {"ip_spoofing"}
         /\ q.xff = <<>> => q.events = {}
    /\ (last.peer # <<>> /\ rlEnabled /\ rlRedis) =>
         \/ LET o == OutcomeOf(last.err, last.allowed) IN
            /\ last.key = RateLimitKey(HostOf(last.peer))
            /\ last.status = o.status
            /\ last.next = o.next
            /\ HeaderNames(last) = o.headers
            /\ last.events \ {"ip_spoofing"} = o.events
            /\ last.xff = <<>> => "ip_spoofing" \notin last.events
         \/ PeerTrusted(last.peer)

\* C15 witness: the request carrying X-Forwarded-For has been flagged and
\* allowed through to the handler while its twin without the header is in
\* flight under the same key, admitted in the same breaker generation.
C15_Witness ==
    /\ last.xff # <<>> /\ ~PeerTrusted(last.peer)
    /\ last.next /\ last.status = 200
    /\ "ip_spoofing" \in last.events
    /\ \E q \in BagToSet(inflight) :
         /\ q.peer = last.peer /\ q.xff = <<>> /\ q.key = last.key
         /\ q.events = {} /\ q.gen = cb.generation

(***************************************************************************)
(* Properties of the backoff strategies (checked under SpecBackoff)        *)
(***************************************************************************)
\* positions of the NextDelay calls recorded, with a non-negative attempt
DelayCalls ==
    {i \in 1..Len(calls) : calls[i].op = "NextDelay" /\ calls[i].attempt >= 0}

\* C16: for every exponential strategy made by NewExponentialBackoff with
\* jitter disabled, NextDelay is monotonically non-decreasing in attempt for
\* attempt >= 0 and never exceeds the strategy's maxDelay.
C16_MonotoneAndCapped ==
    (strategy.kind = "exponential" /\ ~strategy.jitter) =>
        /\ \A i \in DelayCalls, j \in DelayCalls :
              calls[i].attempt <= calls[j].attempt
                  => calls[i].delay <= calls[j].delay
        /\ \A i \in DelayCalls : calls[i].delay <= strategy.max

\* C17: for every attempt >= 0 the delay of a linear strategy equals
\* min(increment * (attempt + 1), maxDelay), computed over the mathematical
\* integers.
C17_LinearExact ==
    strategy.kind = "linear" =>
        \A i \in DelayCalls :
            LET product == strategy.increment * (calls[i].attempt + 1) IN
            calls[i].delay = IF product < strategy.max THEN product ELSE strategy.max

\* C18 as stated: for every exponential or linear strategy, whatever the
\* jitter setting, and every attempt >= 0, the delay is at most maxDelay.
C18_Original ==
    strategy.kind \in {"exponential", "linear"} =>
        \A i \in DelayCalls : calls[i].delay <= strategy.max

\* the largest float64 an exponential strategy converts to a Duration: the
\* cap float64(max), times the largest jitter factor when jitter is on
DelayBound(s) ==
    IF s.jitter THEN Mul(Float64(s.max), OneAndHalf) ELSE Float64(s.max)

\* C18 amended: a linear delay never exceeds maxDelay; an exponential delay
\* is capped before jitter at float64(maxDelay), so it is at most that cap
\* without jitter and at most 1.5 times the cap with jitter, whenever that
\* bound is a value a Duration can hold.
C18_CappedBeforeJitter ==
    /\ strategy.kind = "linear" =>
          \A i \in DelayCalls : calls[i].delay <= strategy.max
    /\ (strategy.kind = "exponential" /\ Representable(DelayBound(strategy))) =>
          \A i \in DelayCalls : calls[i].delay <= IntPart(DelayBound(strategy))

\* C18 witness: a jittered exponential strategy has returned a delay above
\* its maxDelay, and a delay below it as well.
C18_Witness ==
    /\ strategy.kind = "exponential" /\ strategy.jitter
    /\ Representable(DelayBound(strategy))
    /\ \E i \in DelayCalls, j \in DelayCalls :
         /\ calls[i].delay > strategy.max
         /\ calls[i].delay <= IntPart(DelayBound(strategy))
         /\ calls[j].delay < strategy.max

\* positions of all the NextDelay calls recorded
NextDelayCalls == {i \in 1..Len(calls) : calls[i].op = "NextDelay"}

\* C19: non-jittered strategies (Constant, Linear, Exponential without
\* jitter) keep no per-sequence state: two NextDelay calls with the same
\* attempt return the same delay, whatever Reset calls or calls with other
\* attempt numbers, from whichever retry sequence, were made in between; a
\* Constant strategy returns the same delay for every attempt.
C19_NoPerSequenceState ==
    /\ ~strategy.jitter =>
          \A i \in NextDelayCalls, j \in NextDelayCalls :
              calls[i].attempt = calls[j].attempt
                  => calls[i].delay = calls[j].delay
    /\ strategy.kind = "constant" =>
          \A i \in NextDelayCalls, j \in NextDelayCalls :
              calls[i].delay = calls[j].delay

\* C19 witness: an exponential strategy without jitter was asked for the
\* delay of attempt 1, then reset, then asked again, and answered the same
\* delay, one above its minimum.
C19_Witness ==
    /\ strategy.kind = "exponential" /\ ~strategy.jitter
    /\ Len(calls) = 3
    /\ calls[1].op = "NextDelay" /\ calls[1].attempt = 1
    /\ calls[2].op = "Reset"
    /\ calls[3].op = "NextDelay" /\ calls[3].attempt = 1
    /\ calls[1].delay = calls[3].delay
    /\ calls[1].delay > strategy.min

(***************************************************************************)
(* Further properties of retry.Do (checked under SpecRetry)                *)
(***************************************************************************)
\* C21: an invalid retry configuration (negative MaxAttempts, nil Strategy)
\* is rejected when the configuration is constructed, so a call of Do never
\* reports an invalid-configuration error.
C21_NeverInvalidAtCall ==
    ret.kind # "ErrInvalidConfig"

OnRetryIdx == {i \in 1..Len(trace) : trace[i].ev = "onRetry"}
NextDelayIdx == {i \in 1..Len(trace) : trace[i].ev = "nextDelay"}

\* C22: with a valid config Do invokes fn once whatever the state of the
\* context, also when it is cancelled before Do is entered; with
\* MaxAttempts = 0 it invokes fn exactly once and returns the result of that
\* invocation as it is (nil, or the error itself, unwrapped), and calls
\* neither OnRetry nor Strategy.NextDelay.
C22_FirstCallUnconditional ==
    /\ (ValidConfig /\ pc = "call0") => ENABLED DoFirstCall
    /\ (ValidConfig /\ pc \notin {"entry", "call0"}) =>
          /\ Invocations >= 1
          /\ \A i \in 1..Len(trace) :
                (\A j \in 1..(i - 1) : trace[j].ev = "cancel")
                    => trace[i].ev \in {"cancel", "fnOk", "fnFail"}
    /\ (ValidConfig /\ cfgMaxAttempts = 0 /\ pc \notin {"entry", "call0"}) =>
          /\ pc = "done"
          /\ Invocations = 1
          /\ OnRetryIdx = {} /\ NextDelayIdx = {}
          /\ OkIdx # {} => ret.kind = "nil"
          /\ FailIdx # {} =>
                (ret.kind = "raw" /\ \A i \in FailIdx : ret.err = trace[i].err)

\* C22 witness: MaxAttempts = 0 and a context cancelled before Do was
\* entered; fn was invoked once, failed, and Do returned its error unwrapped.
C22_Witness ==
    /\ ValidConfig /\ cfgMaxAttempts = 0 /\ cancelAt = "before" /\ pc = "done"
    /\ Invocations = 1 /\ FailIdx = {1}
    /\ ret.kind = "raw" /\ ret.err = 1

\* the last invocation of fn recorded before position i of the trace
LastFnBefore(i) == MaxOf({j \in FnIdx : j < i})

\* C23: in every retry iteration the steps come in the order cancellation
\* check, OnRetry(attempt, err), Strategy.NextDelay(attempt), sleep,
\* re-invocation of fn.  OnRetry is called with attempt 0, 1, 2, ... in
\* increasing order, at most once per attempt number, each time with the
\* error of the invocation just before it; and the number of invocations and
\* the value Do returns are fixed by the results of fn and by the
\* cancellation alone, whether or not OnRetry is set.
C23_IterationOrder ==
    \* NextDelay(0), NextDelay(1), ... in order, after a check that found the
    \* context live, and after the failure of the previous invocation
    /\ \A i \in NextDelayIdx :
          /\ trace[i].attempt = Cardinality({j \in NextDelayIdx : j < i})
          /\ \A c \in CancelIdx : i < c
          /\ cancelAt # "before"
          /\ {j \in FnIdx : j < i} # {}
          /\ trace[LastFnBefore(i)].ev = "fnFail"
          /\ trace[LastFnBefore(i)].attempt = trace[i].attempt - 1
    \* OnRetry, when set, right before NextDelay of the same attempt and with
    \* the error of the previous invocation; never when not set
    /\ \A i \in NextDelayIdx :
          IF cfgOnRetrySet
          THEN /\ i - 1 \in OnRetryIdx
               /\ trace[i - 1].attempt = trace[i].attempt
               /\ trace[i - 1].err = trace[LastFnBefore(i)].err
          ELSE i - 1 \notin OnRetryIdx
    /\ \A i \in OnRetryIdx :
          /\ cfgOnRetrySet /\ i + 1 \in NextDelayIdx
          /\ \A j \in OnRetryIdx :
                (trace[i].attempt = trace[j].attempt => i = j)
                /\ (i < j => trace[i].attempt < trace[j].attempt)
    \* the re-invocation of an attempt comes after its NextDelay and after
    \* its delay has elapsed
    /\ \A k \in FnIdx :
          trace[k].attempt >= 0 =>
              \E i \in NextDelayIdx, t \in TimerIdx :
                  /\ i < t /\ t < k
                  /\ trace[i].attempt = trace[k].attempt
                  /\ trace[t].attempt = trace[k].attempt
    \* invocations and result do not depend on the hook
    /\ (ValidConfig /\ pc = "done") =>
          /\ Invocations = Cardinality(NextDelayIdx) + 1
                 - (IF ret.kind = "cancelledDelay" THEN 1 ELSE 0)
          /\ ret.kind = "nil" <=> OkIdx # {}
          /\ ret.kind \in {"raw", "ErrMaxAttemptsReached"} =>
                (ret.err = Invocations /\ Invocations = cfgMaxAttempts + 1)
          /\ ret.kind \in {"cancelled", "cancelledDelay"} =>
                (ctxDone /\ ret.attempt = Invocations - 1)

\* C23 witness: with the hook set, Do has made three retries: OnRetry was
\* called for attempts 0, 1 and 2 with the errors of invocations 1, 2 and 3.
C23_Witness ==
    /\ cfgOnRetrySet /\ pc = "done" /\ Invocations = 4
    /\ Cardinality(OnRetryIdx) = 3
    /\ \A i \in OnRetryIdx : trace[i].err = trace[i].attempt + 1
    /\ \A a \in 0..2 : \E i \in OnRetryIdx : trace[i].attempt = a

\* C24: when the context is already done at the start of a retry iteration,
\* Do returns at once a cancellation error annotated with the attempt number
\* reached, and calls neither OnRetry nor Strategy.NextDelay nor fn for that
\* attempt or a later one.
C24_CancelledAtIterationStart ==
    [][/\ (pc = "loop" /\ attempt < cfgMaxAttempts /\ ctxDone /\ pc' # pc) =>
             /\ pc' = "done"
             /\ ret'.kind = "cancelled"
             /\ ret'.attempt = attempt
             /\ trace' = trace
             /\ \A i \in OnRetryIdx \cup NextDelayIdx \cup FnIdx :
                   trace[i].attempt < attempt
       /\ pc = "done" => (trace' = trace /\ ret' = ret)]_vars

\* C24 witness: the context was cancelled while fn ran for the second time;
\* fn failed, and Do returned the cancellation error of attempt 1 with no
\* call recorded for that attempt.
C24_Witness ==
    /\ pc = "done" /\ ret.kind = "cancelled" /\ ret.attempt = 1
    /\ cancelAt = "call" /\ Invocations = 2
    /\ \A i \in OnRetryIdx \cup NextDelayIdx \cup FnIdx : trace[i].attempt < 1
    /\ cfgOnRetrySet /\ cfgMaxAttempts > 1

(***************************************************************************)
(* Properties of the half-open breaker (checked under SpecTripped)         *)
(***************************************************************************)
\* store calls in progress that were admitted in the breaker's generation g
InFlightOf(g) == {q \in BagToSet(inflight) : q.gen = g}
TrialsInFlight ==
    BagCardinality([q \in InFlightOf(cb.generation) |-> CopiesIn(q, inflight)])

\* C25: while the breaker is HalfOpen, whatever the interleaving of the
\* concurrent calls, at most MaxRequests = 3 calls are admitted to the store
\* before the breaker leaves HalfOpen; every call arriving after the third
\* admission is rejected and the store is not called for it.
C25_TrialsBounded ==
    /\ cb.state = "halfOpen" =>
          /\ cb.counts.Requests <= MaxRequests
          /\ TrialsInFlight <= cb.counts.Requests
    /\ (cbOp.op = "admit" /\ cbOp.from = "halfOpen") =>
          cbOp.counts.Requests <= MaxRequests
    /\ (cbOp.op = "reject" /\ cbOp.from = "halfOpen") =>
          /\ cbOp.counts.Requests = MaxRequests
          /\ cb.state = "halfOpen"
          /\ last.err = "ErrTooManyRequests"
          /\ last.status = 503 /\ ~last.next /\ ~last.storeCalled

\* C25 witness: three trial calls are in progress at the same time and a
\* fourth request has just been turned away.
C25_Witness ==
    /\ cb.state = "halfOpen" /\ cb.counts.Requests = MaxRequests
    /\ TrialsInFlight = MaxRequests
    /\ cbOp.op = "reject" /\ cbOp.from = "halfOpen"
    /\ last.err = "ErrTooManyRequests" /\ ~last.storeCalled

\* the generation of the first half-open period after the breaker tripped
FirstTrialGeneration == TrippedAt(0 - Timeout - TickStep).cb.generation + 1

\* the store call q returns with an error in this step
FailsNow(q) ==
    /\ q \in BagToSet(inflight)
    /\ inflight' = inflight (-) SetToBag({q})
    /\ last'.err = "store"

\* C26 as stated: in the HalfOpen state the failure of any trial call moves
\* the breaker to Open at once and sets openedAt to the time of the failure.
C26_Original ==
    [][\A q \in BagToSet(inflight) :
          ( /\ q.gen = FirstTrialGeneration
            /\ CurrentState(cb, now).state = "halfOpen"
            /\ FailsNow(q) )
              => (cb'.state = "open" /\ OpenedAt(cb'.expiry) = now)]_vars

\* C26 amended: in the HalfOpen state the failure of a trial call admitted in
\* the current half-open period moves the breaker to Open at once, with
\* openedAt the time of the failure, and every call is then rejected without
\* a store call until more than openDuration has passed since the failure.
\* The result of a call admitted in an earlier period is discarded and
\* changes neither the state nor the counts.
C26_TrialFailureReopens ==
    [][/\ \A q \in BagToSet(inflight) :
             LET pre == CurrentState(cb, now) IN
             (pre.state = "halfOpen" /\ FailsNow(q)) =>
                 IF q.gen = pre.generation
                 THEN /\ cb'.state = "open"
                      /\ OpenedAt(cb'.expiry) = now
                      /\ cb'.generation = pre.generation + 1
                 ELSE cb' = pre
       /\ (cb.state = "open" /\ now <= cb.expiry /\ cb' # cb) =>
             (cb.state = "closed" /\ cb'.state = "open")
       /\ (cb.state = "open" /\ now <= cb.expiry /\ last'.peer # <<>>
             /\ inflight' = inflight) =>
             /\ last'.err = "ErrOpenState" /\ last'.status = 503
             /\ ~last'.next /\ ~last'.storeCalled]_vars

\* C26 witness: a trial call has just failed, the breaker is Open again for
\* 30s from now, and another trial call of the period is still in progress.
C26_Witness ==
    /\ cbOp.op = "failure" /\ cbOp.from = "halfOpen" /\ cbOp.at = now
    /\ cb.state = "open" /\ OpenedAt(cb.expiry) = now
    /\ InFlightOf(cb.generation - 1) # {}

(***************************************************************************)
(* Further properties of the backoff strategies (checked under SpecBackoff)*)
(***************************************************************************)
\* the delay of an exponential strategy before jitter, as NextDelay computes
\* it: min * factor^attempt, capped at max
PreJitter(s, att) ==
    LET raw == Mul(Float64(s.min), Pow(s.factor, Float64(att)))
    IN  IF Greater(raw, Float64(s.max)) THEN Float64(s.max) ELSE raw

\* a float64 f > 0 as the fraction Numer(f) / Denom(f)
Numer(f) == IF f.e >= 0 THEN f.m * 2^f.e ELSE f.m
Denom(f) == IF f.e >= 0 THEN 1 ELSE 2^(-f.e)

\* C27: with jitter enabled, NextDelay(attempt) of an exponential strategy
\* lies in [0.5 * d, 1.5 * d), d the capped delay before jitter; a delay is a
\* whole number, so the lower end is taken rounded down.
C27_JitterRange ==
    (strategy.kind = "exponential" /\ strategy.jitter) =>
        \A i \in DelayCalls :
            LET d == PreJitter(strategy, calls[i].attempt) IN
            /\ ~d.nan
            /\ 2 * Denom(d) * (calls[i].delay + 1) > Numer(d)
            /\ 2 * Denom(d) * calls[i].delay < 3 * Numer(d)

\* C28: whatever its inputs, construction establishes the invariant of the
\* strategy: 0 < min <= max and factor > 1 after NewExponentialBackoff,
\* 0 < increment <= max after NewLinearBackoff, delay > 0 after
\* NewConstantBackoff.
C28_ConstructionInvariant ==
    /\ strategy.kind = "exponential" =>
          /\ 0 < strategy.min /\ strategy.min <= strategy.max
          /\ Greater(strategy.factor, One)
    /\ strategy.kind = "linear" =>
          (0 < strategy.increment /\ strategy.increment <= strategy.max)
    /\ strategy.kind = "constant" => 0 < strategy.delay

(***************************************************************************)
(* Further properties of ByIP (checked under SpecIdentity)                 *)
(***************************************************************************)
\* the peer address, port stripped, is not an IP address
Unparsable(peer) == ParseIP(HostOf(peer)) = <<>>

\* no well-formed entry of the trusted list contains the peer
OutsideWellFormedRanges(peer) ==
    \A k \in 1..Len(trustedCidrs) :
        WellFormedRange(trustedCidrs[k]) =>
            LET peerBits == IPBits(ParseIP(HostOf(peer)))
                rangeBits == IPBits(ParseIP(SubSeq(trustedCidrs[k], 1, 7)))
            IN  \E i \in 1..trustedCidrs[k][9].v : peerBits[i] # rangeBits[i]

\* C29 as stated: without a forwarded header the identity is the peer
\* address with its port stripped, trusted or not; a peer address that is
\* not an IP is never trusted and resolves to the raw peer string, also with
\* a forwarded header; malformed CIDR entries make no peer trusted.
C29_Original ==
    \A r \in resolved :
        /\ r.xff = <<>> => r.id = HostOf(r.peer)
        /\ Unparsable(r.peer) => r.id = r.peer
        /\ (~Unparsable(r.peer) /\ OutsideWellFormedRanges(r.peer))
              => r.id = HostOf(r.peer)

\* C29 amended: as stated, except that a peer address that is not an IP
\* resolves to the peer string with its port stripped when it has the form
\* host:port, and to the peer string as it is otherwise.
C29_PeerFallback ==
    \A r \in resolved :
        /\ r.xff = <<>> => r.id = HostOf(r.peer)
        /\ Unparsable(r.peer) =>
              /\ r.id = HostOf(r.peer)
              /\ Cardinality({i \in 1..Len(r.peer) : r.peer[i] = Colon}) # 1
                    => r.id = r.peer
        /\ (~Unparsable(r.peer) /\ OutsideWellFormedRanges(r.peer))
              => r.id = HostOf(r.peer)

\* C29 witness: the trusted list holds 10.0.0.0/33; peer 10.0.0.5 sends a
\* forwarded header and resolves to itself, and so does a peer whose address
\* is a name with a port, which resolves to the name.
C29_Witness ==
    /\ CIDR(IPv4(10, 0, 0, 0), 33) \in {trustedCidrs[k] : k \in 1..Len(trustedCidrs)}
    /\ \E r \in resolved :
         /\ r.peer = HostPort(IPv4(10, 0, 0, 5), 1234) /\ r.xff # <<>>
         /\ r.id = IPv4(10, 0, 0, 5)
    /\ \E r \in resolved :
         /\ r.peer = <<Letter, Colon, N(1)>> /\ r.xff # <<>>
         /\ r.id = <<Letter>>

(***************************************************************************)
(* Properties of the middleware chain (checked under SpecChain)            *)
(***************************************************************************)
\* C30: behind RealIP, a request whose peer lies outside every trusted range
\* is still limited under its true peer address: the X-Real-IP and
\* X-Forwarded-For values it sends change neither the rate-limit key nor
\* whether the peer is judged trusted.
C30_ChainKeepsPeerIdentity ==
    \A r \in resolved :
        ~PeerTrusted(r.peer) =>
            /\ r.key = RateLimitKey(HostOf(r.peer))
            /\ ~r.trusted

====
